---- MODULE Spec2Model ----
(***************************************************************************)
(* mclick: a command-line tool that synthesizes mouse-button clicks        *)
(* through /dev/uinput (src/mclick.c).                                     *)
(*                                                                         *)
(* The model follows main(): the command line is parsed (get_count, the    *)
(* option loop, parse_duration), the uinput device is set up, one of the   *)
(* two click loops runs, and the device is closed.  Every system call on   *)
(* the device and every sleep is appended to `trace`, so that properties   *)
(* of the emitted event sequence can be stated on it.                      *)
(*                                                                         *)
(* A command-line argument is a sequence of one-character strings, so      *)
(* that isdigit(arg[0]), std::stoi and find_first_not_of can be computed   *)
(* as the code computes them.  C indices are 0-based: argv[i] of the code  *)
(* is argv[i + 1] here.                                                    *)
(***************************************************************************)
EXTENDS Integers, Sequences, FiniteSets, TLC

(***************************************************************************)
(* Bounds of the model.                                                    *)
(***************************************************************************)
\* Arguments after the button selector (argv[2] .. argv[MaxArgs + 1]).
MaxArgs == 3
\* The same, for the runs checked for termination under fairness.
MaxFairArgs == 2
\* Option-value pairs after the button selector, for the command lines made
\* of such pairs only.
MaxPairs == 2
\* write() calls on the event device that the environment may fail in a run.
MaxWriteFails == 1

(***************************************************************************)
(* Program constants.                                                      *)
(***************************************************************************)
DEFAULT_HOLD_MS == 120
DEFAULT_CLICK_SPEED_MS == 120
DEFAULT_CLICK_COUNT == 1
EXIT_SUCCESS == 0
EXIT_FAILURE == 1
\* Largest value of a C++ int; std::stoi throws out_of_range beyond it.
INT_MAX == 2147483647

(***************************************************************************)
(* Characters and strings.                                                 *)
(***************************************************************************)
Digits == <<"0", "1", "2", "3", "4", "5", "6", "7", "8", "9">>

isdigit(c) == \E d \in 1..Len(Digits) : Digits[d] = c

DigitVal(c) == (CHOOSE d \in 1..Len(Digits) : Digits[d] = c) - 1

isspace(c) == c \in {" ", "\t", "\n"}

\* arg[0] of a std::string: the terminating NUL when the string is empty.
FirstChar(s) == IF Len(s) = 0 THEN "NUL" ELSE s[1]

\* std::stoi(s), base 10: leading white space is skipped, then an optional
\* sign, then the longest run of digits; trailing characters are ignored.
\* StoiStart is the position of the first digit expected.
RECURSIVE SkipSpace(_, _)
SkipSpace(s, k) ==
    IF k <= Len(s) /\ isspace(s[k]) THEN SkipSpace(s, k + 1) ELSE k

StoiSignPos(s) == SkipSpace(s, 1)

StoiNegative(s) == StoiSignPos(s) <= Len(s) /\ s[StoiSignPos(s)] = "-"

StoiStart(s) ==
    IF StoiSignPos(s) <= Len(s) /\ s[StoiSignPos(s)] \in {"-", "+"}
    THEN StoiSignPos(s) + 1
    ELSE StoiSignPos(s)

RECURSIVE StoiDigits(_, _, _)
StoiDigits(s, k, acc) ==
    IF k <= Len(s) /\ isdigit(s[k])
    THEN StoiDigits(s, k + 1, acc * 10 + DigitVal(s[k]))
    ELSE acc

StoiMagnitude(s) == StoiDigits(s, StoiStart(s), 0)

\* invalid_argument when no digit can be converted, out_of_range when the
\* value does not fit an int.
StoiThrows(s) ==
    \/ ~(StoiStart(s) <= Len(s) /\ isdigit(s[StoiStart(s)]))
    \/ StoiMagnitude(s) > INT_MAX

stoi(s) == IF StoiNegative(s) THEN 0 - StoiMagnitude(s) ELSE StoiMagnitude(s)

\* s.find_first_not_of("0123456789"): the 1-based position of the first
\* character that is no digit, 0 for string::npos.
RECURSIVE FindFirstNotDigit(_, _)
FindFirstNotDigit(s, k) ==
    IF k > Len(s) THEN 0
    ELSE IF isdigit(s[k]) THEN FindFirstNotDigit(s, k + 1) ELSE k

(***************************************************************************)
(* Argument words.                                                         *)
(***************************************************************************)
ProgramName == <<"m", "c", "l", "i", "c", "k">>
OptHoldShort == <<"-", "h">>
OptHoldLong == <<"-", "-", "h", "o", "l", "d">>
OptHelpLong == <<"-", "-", "h", "e", "l", "p">>
OptSpeedShort == <<"-", "c", "s">>
OptSpeedLong == <<"-", "-", "c", "l", "i", "c", "k", "s", "p", "e", "e", "d">>
OptTimeShort == <<"-", "t">>
OptTimeLong == <<"-", "-", "t", "i", "m", "e">>
OptDebugShort == <<"-", "d">>
OptDebugLong == <<"-", "-", "d", "e", "b", "u", "g">>

\* The result of a function that may end the process with exit(EXIT_FAILURE).
Exits == [exit |-> TRUE, value |-> 0]
Returns(v) == [exit |-> FALSE, value |-> v]

\* parse_duration: the positive number of milliseconds, a trailing 's' right
\* after the leading digits multiplying by 1000; any exception thrown inside
\* (stoi's, or the one for value <= 0) ends the process with EXIT_FAILURE.
\* value * 1000 stays far below INT_MAX for the words considered here.
parse_duration(s) ==
    LET suffix_pos == FindFirstNotDigit(s, 1)
    IN  IF StoiThrows(s) THEN Exits
        ELSE IF stoi(s) <= 0 THEN Exits
        ELSE IF suffix_pos # 0 /\ s[suffix_pos] = "s"
             THEN Returns(stoi(s) * 1000)
             ELSE Returns(stoi(s))

\* get_duration: parse_duration of the word that follows the FIRST word
\* equal to `option` that has a follower; 0 when there is none.
RECURSIVE get_duration_from(_, _, _)
get_duration_from(argv, option, i) ==
    IF ~(i < Len(argv)) THEN Returns(0)
    ELSE IF option = argv[i + 1] /\ i + 1 < Len(argv)
         THEN parse_duration(argv[i + 2])
         ELSE get_duration_from(argv, option, i + 1)

get_duration(argv, option) == get_duration_from(argv, option, 0)

\* get_count: stoi of the first word of the whole command line (program name
\* and option values included) that starts with a digit, else the default.
\* stoi cannot throw invalid_argument here, and the words considered are too
\* short for out_of_range.
RECURSIVE get_count_from(_, _)
get_count_from(argv, i) ==
    IF ~(i < Len(argv)) THEN DEFAULT_CLICK_COUNT
    ELSE IF isdigit(FirstChar(argv[i + 1])) THEN stoi(argv[i + 1])
         ELSE get_count_from(argv, i + 1)

get_count(argv) == get_count_from(argv, 0)

\* The option loop of main, from index i on, with the settings made so far.
\* cfg.exit is set when a parse_duration call ended the process.
RECURSIVE OptionLoop(_, _, _)
OptionLoop(argv, i, cfg) ==
    IF ~(i < Len(argv)) THEN cfg
    ELSE
      LET arg == argv[i + 1]
          more == i + 1 < Len(argv)
      IN  IF arg = OptDebugShort \/ arg = OptDebugLong
          THEN OptionLoop(argv, i + 1, [cfg EXCEPT !.debug_mode = TRUE])
          ELSE IF (arg = OptHoldShort \/ arg = OptHoldLong) /\ more
          THEN LET d == parse_duration(argv[i + 2])
               IN  IF d.exit THEN [cfg EXCEPT !.exit = TRUE]
                   ELSE OptionLoop(argv, i + 2, [cfg EXCEPT !.hold_ms = d.value])
          ELSE IF (arg = OptSpeedShort \/ arg = OptSpeedLong) /\ more
          THEN LET d == parse_duration(argv[i + 2])
               IN  IF d.exit THEN [cfg EXCEPT !.exit = TRUE]
                   ELSE OptionLoop(argv, i + 2,
                                   [cfg EXCEPT !.click_speed_ms = d.value])
          ELSE IF (arg = OptTimeShort \/ arg = OptTimeLong) /\ more
          THEN LET d == get_duration(argv, arg)
               IN  IF d.exit THEN [cfg EXCEPT !.exit = TRUE]
                   ELSE OptionLoop(argv, i + 1,
                                   [cfg EXCEPT !.duration_ms = d.value])
          ELSE OptionLoop(argv, i + 1, cfg)

(***************************************************************************)
(* The device and the event stream.                                        *)
(***************************************************************************)
\* One entry of the trace: a system call on the device, or a sleep.
\*   op    "open" | "ioctl" | "write" | "close" | "sleep"
\*   kind  the ioctl request, the event type (EV_KEY, EV_SYN), "descriptor"
\*         for the uinput_user_dev record, or the sleep's place in the cycle
\*   code  the ioctl argument or the event code
\*   value the event value, or the sleep's milliseconds
\*   ok    whether the call succeeded
Entry(op, kind, code, value, ok) ==
    [op |-> op, kind |-> kind, code |-> code, value |-> value, ok |-> ok]

\* send_input_event: one write of an input_event record. A failed write is
\* reported on stderr and the function returns; nothing is thrown.
send_input_event(type, code, value, ok) == Entry("write", type, code, value, ok)

\* send_event as it would be without the SYN_REPORT that follows the key event.
send_event_without_sync(button, action, key_ok, syn_ok) ==
    << send_input_event("EV_KEY", button, action, key_ok) >>

\* send_event: the key event, then the SYN_REPORT event, whatever became of
\* the key event's write.
send_event(button, action, key_ok, syn_ok) ==
    << send_input_event("EV_KEY", button, action, key_ok),
       send_input_event("EV_SYN", "SYN_REPORT", 0, syn_ok) >>

\* sleep_ms: the calling thread sleeps; modelled as taking exactly ms.
sleep_ms(kind, ms) == Entry("sleep", kind, "none", ms, TRUE)

\* The calls of setup_uinput_device, in order.
SetupSteps ==
    << Entry("open", "O_WRONLY|O_NONBLOCK", "/dev/uinput", 0, TRUE),
       Entry("ioctl", "UI_SET_EVBIT", "EV_KEY", 0, TRUE),
       Entry("ioctl", "UI_SET_KEYBIT", "BTN_LEFT", 0, TRUE),
       Entry("ioctl", "UI_SET_KEYBIT", "BTN_RIGHT", 0, TRUE),
       Entry("write", "descriptor", "virtual-mouse", 0, TRUE),
       Entry("ioctl", "UI_DEV_CREATE", "none", 0, TRUE) >>

CloseEntry == Entry("close", "fd", "none", 0, TRUE)

\* setup_uinput_device as it would be with the close() missing where the
\* capability ioctls fail.
SetupClosesOnFailure_not_after_ioctl(failed) == failed > 4

\* Whether setup_uinput_device closes the descriptor before exit() when step
\* `failed` fails: on every failure but that of open itself (step 1).
SetupClosesOnFailure(failed) == failed > 1

\* The calls made when step `failed` fails (0: none fails): the steps before
\* it succeed, it fails, and the descriptor is closed if it had been opened.
SetupCalls(failed) ==
    IF failed = 0 THEN SetupSteps
    ELSE SubSeq(SetupSteps, 1, failed - 1)
         \o << [SetupSteps[failed] EXCEPT !.ok = FALSE] >>
         \o (IF SetupClosesOnFailure(failed) THEN << CloseEntry >> ELSE << >>)

\* setup_uinput_device as it would be if it reported a failure and returned
\* the descriptor all the same.
SetupContinues_after_failure(failed) == TRUE

\* Where setup_uinput_device leaves the process: back in main with the
\* descriptor, or ended by exit(EXIT_FAILURE).
SetupContinues(failed) == failed = 0

\* BUTTONS of main.
Button(c) == IF c = "l" THEN "BTN_LEFT" ELSE "BTN_RIGHT"

\* The loop conditions of perform_clicks and perform_timed_clicks, and the
\* condition of the inter-click sleep of perform_clicks.
\* The loop of perform_clicks as it would be with <= for <.
CountContinue_inclusive(n, cnt) == n <= cnt

CountContinue(n, cnt) == n < cnt

\* The loop of perform_timed_clicks as it would be with <= for <.
TimedContinue_inclusive(elapsed, budget) == elapsed <= budget

TimedContinue(elapsed, budget) == elapsed < budget

\* The inter-click sleep as it would be if made after every release.
NeedDelay_every_cycle(n, cnt) == n < cnt

NeedDelay(n, cnt) == n < cnt - 1

(***************************************************************************)
(* The command lines considered.                                           *)
(***************************************************************************)
FirstWords == { <<"l">>, <<"r">>, <<"x">>, OptHoldShort }

\* "+240" is a duration that get_count does not take for a count, as it
\* starts with no digit.
Words == { OptHoldShort, OptSpeedShort, OptTimeShort, OptDebugShort,
           <<"2">>, <<"0">>, <<"-", "5">>, <<"a">>,
           <<"+", "2", "4", "0">>, <<"1", "s">> }

SeqsUpTo(S, n) == UNION { [1..k -> S] : k \in 0..n }

ArgvSet(n) ==
    { <<ProgramName>> }
    \cup { <<ProgramName, f>> \o rest : f \in FirstWords,
                                        rest \in SeqsUpTo(Words, n) }

\* Command lines of a button selector and named duration options, each with
\* a value.
PairOptions == { OptHoldShort, OptSpeedShort, OptTimeShort }
PairValues == { <<"2">>, <<"0">>, <<"-", "5">>, <<"a">>, <<"+", "2", "4", "0">> }
Pairs == { <<o, v>> : o \in PairOptions, v \in PairValues }

RECURSIVE Flatten(_)
Flatten(ss) == IF ss = << >> THEN << >> ELSE Head(ss) \o Flatten(Tail(ss))

PairArgvSet ==
    { <<ProgramName, f>> \o Flatten(ps) : f \in { <<"l">>, <<"r">> },
                                          ps \in SeqsUpTo(Pairs, MaxPairs) }

(***************************************************************************)
(* State.                                                                  *)
(***************************************************************************)
VARIABLES
    argv,            \* the command line, argv[0] first
    pc,              \* where the process is
    exit_code,       \* the exit status once pc = "exited"
    button,          \* main's button
    count,           \* main's count
    hold_ms,         \* main's hold_ms
    duration_ms,     \* main's duration_ms
    click_speed_ms,  \* the global click_speed_ms
    debug_mode,      \* the global debug_mode
    handle,          \* the uinput descriptor: "none", "open" or "closed"
    i,               \* perform_clicks' loop index
    clock,           \* steady_clock, in milliseconds
    start,           \* perform_timed_clicks' start
    write_fails,     \* event writes failed so far
    trace            \* the device calls and sleeps made so far

vars == << argv, pc, exit_code, button, count, hold_ms, duration_ms,
           click_speed_ms, debug_mode, handle, i, clock, start,
           write_fails, trace >>

config == << button, count, hold_ms, duration_ms, click_speed_ms, debug_mode >>
loop == << i, clock, start, write_fails >>

InitWith(lines) ==
    /\ argv \in lines
    /\ pc = "main"
    /\ exit_code = -1
    /\ button = "none"
    /\ count = 0
    /\ hold_ms = DEFAULT_HOLD_MS
    /\ duration_ms = 0
    /\ click_speed_ms = DEFAULT_CLICK_SPEED_MS
    /\ debug_mode = FALSE
    /\ handle = "none"
    /\ i = 0
    /\ clock = 0
    /\ start = 0
    /\ write_fails = 0
    /\ trace = << >>

Init == InitWith(ArgvSet(MaxArgs))
FairInit == InitWith(ArgvSet(MaxFairArgs))
PairInit == InitWith(PairArgvSet)

(***************************************************************************)
(* main, up to the call of setup_uinput_device.                            *)
(***************************************************************************)
\* The usage and button checks: TRUE when main returns EXIT_FAILURE there.
BadUsage(av) ==
    \/ Len(av) < 2
    \/ av[2] = OptHoldShort
    \/ av[2] = OptHelpLong
    \/ FirstChar(av[2]) \notin {"l", "r"}

ParsedOptions(av) ==
    OptionLoop(av, 2, [exit |-> FALSE, hold_ms |-> DEFAULT_HOLD_MS,
                       click_speed_ms |-> DEFAULT_CLICK_SPEED_MS,
                       duration_ms |-> 0, debug_mode |-> FALSE])

main_args ==
    /\ pc = "main"
    /\ IF BadUsage(argv)
       THEN /\ pc' = "exited"
            /\ exit_code' = EXIT_FAILURE
            /\ UNCHANGED config
       ELSE LET cfg == ParsedOptions(argv)
            IN  /\ button' = Button(FirstChar(argv[2]))
                /\ count' = get_count(argv)
                /\ hold_ms' = cfg.hold_ms
                /\ click_speed_ms' = cfg.click_speed_ms
                /\ duration_ms' = cfg.duration_ms
                /\ debug_mode' = cfg.debug_mode
                /\ pc' = IF cfg.exit THEN "exited" ELSE "setup"
                /\ exit_code' = IF cfg.exit THEN EXIT_FAILURE ELSE exit_code
    /\ UNCHANGED << argv, handle, loop, trace >>

(***************************************************************************)
(* setup_uinput_device: any of its six calls may fail.                     *)
(***************************************************************************)
setup_uinput_device ==
    /\ pc = "setup"
    /\ \E failed \in 0..Len(SetupSteps) :
         /\ trace' = trace \o SetupCalls(failed)
         /\ handle' = IF failed = 0 THEN "open"
                      ELSE IF failed = 1 THEN "none"
                      ELSE IF SetupClosesOnFailure(failed) THEN "closed"
                      ELSE "open"
         /\ pc' = IF SetupContinues(failed) THEN "run" ELSE "exited"
         /\ exit_code' = IF SetupContinues(failed) THEN exit_code
                         ELSE EXIT_FAILURE
    /\ UNCHANGED << argv, config, loop >>

(***************************************************************************)
(* main's choice of the click loop, and the loops' first lines.            *)
(***************************************************************************)
Timed == duration_ms > 0

main_dispatch ==
    /\ pc = "run"
    /\ IF Timed
       THEN /\ start' = clock
            /\ pc' = "timed_check"
            /\ i' = i
       ELSE /\ i' = 0
            /\ pc' = "count_check"
            /\ start' = start
    /\ UNCHANGED << argv, exit_code, config, handle, clock, write_fails, trace >>

\* for (...; i < count; ...) of perform_clicks
count_check ==
    /\ pc = "count_check"
    /\ pc' = IF CountContinue(i, count) THEN "press" ELSE "close"
    /\ UNCHANGED << argv, exit_code, config, handle, loop, trace >>

\* while (now - start < duration_ms) of perform_timed_clicks
timed_check ==
    /\ pc = "timed_check"
    /\ pc' = IF TimedContinue(clock - start, duration_ms) THEN "press" ELSE "close"
    /\ UNCHANGED << argv, exit_code, config, handle, loop, trace >>

\* The number of failures among two writes.
Failures(key_ok, syn_ok) ==
    (IF key_ok THEN 0 ELSE 1) + (IF syn_ok THEN 0 ELSE 1)

\* send_event(fd, button, action) in either loop; each of its two writes
\* succeeds or fails.
SendEvent(action, next) ==
    \E key_ok \in BOOLEAN, syn_ok \in BOOLEAN :
        /\ write_fails + Failures(key_ok, syn_ok) <= MaxWriteFails
        /\ write_fails' = write_fails + Failures(key_ok, syn_ok)
        /\ trace' = trace \o send_event(button, action, key_ok, syn_ok)
        /\ pc' = next
        /\ UNCHANGED << argv, exit_code, config, handle, i, clock, start >>

press ==
    /\ pc = "press"
    /\ SendEvent(1, "hold")

hold ==
    /\ pc = "hold"
    /\ clock' = clock + hold_ms
    /\ trace' = Append(trace, sleep_ms("hold", hold_ms))
    /\ pc' = "release"
    /\ UNCHANGED << argv, exit_code, config, handle, i, start, write_fails >>

release ==
    /\ pc = "release"
    /\ SendEvent(0, IF Timed THEN "timed_delay" ELSE "count_delay")

\* if (i < count - 1) sleep_ms(click_speed_ms); i++
count_delay ==
    /\ pc = "count_delay"
    /\ IF NeedDelay(i, count)
       THEN /\ clock' = clock + click_speed_ms
            /\ trace' = Append(trace, sleep_ms("delay", click_speed_ms))
       ELSE UNCHANGED << clock, trace >>
    /\ i' = i + 1
    /\ pc' = "count_check"
    /\ UNCHANGED << argv, exit_code, config, handle, start, write_fails >>

\* sleep_ms(click_speed_ms) at the end of every timed cycle
timed_delay ==
    /\ pc = "timed_delay"
    /\ clock' = clock + click_speed_ms
    /\ trace' = Append(trace, sleep_ms("delay", click_speed_ms))
    /\ pc' = "timed_check"
    /\ UNCHANGED << argv, exit_code, config, handle, i, start, write_fails >>

\* close(fd); return EXIT_SUCCESS. Nothing called inside main's try block
\* throws, so its catch clause is never entered.
main_close ==
    /\ pc = "close"
    /\ trace' = Append(trace, CloseEntry)
    /\ handle' = "closed"
    /\ exit_code' = EXIT_SUCCESS
    /\ pc' = "exited"
    /\ UNCHANGED << argv, config, loop >>

Next ==
    \/ main_args
    \/ setup_uinput_device
    \/ main_dispatch
    \/ count_check
    \/ timed_check
    \/ press
    \/ hold
    \/ release
    \/ count_delay
    \/ timed_delay
    \/ main_close

Spec == Init /\ [][Next]_vars

\* The process runs: a step that can be taken is taken.
FairSpec == FairInit /\ [][Next]_vars /\ WF_vars(Next)

\* The runs on command lines of option-value pairs.
PairSpec == PairInit /\ [][Next]_vars

(***************************************************************************)
(* What the trace shows.                                                   *)
(***************************************************************************)
IsEventWrite(e) == e.op = "write" /\ e.kind \in {"EV_KEY", "EV_SYN"}
IsKeyWrite(e) == e.op = "write" /\ e.kind = "EV_KEY"
IsSynWrite(e) == e.op = "write" /\ e.kind = "EV_SYN"
IsPressWrite(e) == IsKeyWrite(e) /\ e.value = 1
IsReleaseWrite(e) == IsKeyWrite(e) /\ e.value = 0
IsHoldSleep(e) == e.op = "sleep" /\ e.kind = "hold"
IsDelaySleep(e) == e.op = "sleep" /\ e.kind = "delay"
IsSetupCall(e) ==
    e.op \in {"open", "ioctl"} \/ (e.op = "write" /\ e.kind = "descriptor")
IsClose(e) == e.op = "close"

\* The event writes attempted, and the events that reached the device.
EventWrites == SelectSeq(trace, IsEventWrite)
Emitted == SelectSeq(trace, LAMBDA e : IsEventWrite(e) /\ e.ok)

HoldSleeps == Len(SelectSeq(trace, IsHoldSleep))
DelaySleeps == Len(SelectSeq(trace, IsDelaySleep))
Presses == Len(SelectSeq(trace, IsPressWrite))
Releases == Len(SelectSeq(trace, IsReleaseWrite))
Closes == Len(SelectSeq(trace, IsClose))

Opened == \E k \in DOMAIN trace : trace[k].op = "open" /\ trace[k].ok
SetupFailed == \E k \in DOMAIN trace : IsSetupCall(trace[k]) /\ ~trace[k].ok
KeyWriteFailed == \E k \in DOMAIN trace : IsKeyWrite(trace[k]) /\ ~trace[k].ok
WriteFailed == \E k \in DOMAIN trace : IsEventWrite(trace[k]) /\ ~trace[k].ok

\* The click loop has been left, or the process has returned from main after it.
LoopLeft == pc = "close" \/ (pc = "exited" /\ exit_code = EXIT_SUCCESS)
Exited == pc = "exited"

IsPrefix(s, t) == Len(s) <= Len(t) /\ SubSeq(t, 1, Len(s)) = s

RECURSIVE Repeat(_, _)
Repeat(s, n) == IF n <= 0 THEN << >> ELSE s \o Repeat(s, n - 1)

\* One click as the device should see it.
OneClick(b) ==
    << Entry("write", "EV_KEY", b, 1, TRUE),
       Entry("write", "EV_SYN", "SYN_REPORT", 0, TRUE),
       Entry("write", "EV_KEY", b, 0, TRUE),
       Entry("write", "EV_SYN", "SYN_REPORT", 0, TRUE) >>

(***************************************************************************)
(* C1                                                                      *)
(***************************************************************************)
\* C1: in a bounded-count run with count N >= 1 in which no write fails, the
\* events written are at every moment a prefix of (press, sync, release,
\* sync) repeated N times for the selected button, and are exactly that
\* sequence once the loop has been left.
C1_BoundedEventSequence ==
    (~Timed /\ count >= 1 /\ write_fails = 0 /\ button # "none") =>
        /\ IsPrefix(Emitted, Repeat(OneClick(button), count))
        /\ LoopLeft => Emitted = Repeat(OneClick(button), count)

C1_Witness ==
    /\ Exited /\ exit_code = EXIT_SUCCESS
    /\ ~Timed /\ count = 2 /\ write_fails = 0
    /\ button = "BTN_RIGHT"
    /\ Len(Emitted) = 8

(***************************************************************************)
(* C2                                                                      *)
(***************************************************************************)
\* C2: after a failed write of a key event (a press or a release), no
\* further key or sync event write is made.
C2_KeyFailureStopsEvents ==
    \A j \in DOMAIN trace : \A k \in DOMAIN trace :
        (j < k /\ IsKeyWrite(trace[j]) /\ ~trace[j].ok) => ~IsEventWrite(trace[k])

(***************************************************************************)
(* C3                                                                      *)
(***************************************************************************)
\* C3: the exit status is 0 only for a completed run: a process that ended
\* after a failed setup call, a rejected command line or a failed event
\* write has a non-zero status.
C3_ExitZeroOnlyWhenNothingFailed ==
    (Exited /\ exit_code = EXIT_SUCCESS) =>
        /\ ~SetupFailed
        /\ ~BadUsage(argv)
        /\ ~ParsedOptions(argv).exit
        /\ ~WriteFailed

(***************************************************************************)
(* C4                                                                      *)
(***************************************************************************)
\* C4: a timed run with budget B > 0 makes at least one full cycle (press,
\* hold, release, delay), leaves its loop only with elapsed time >= B, and
\* with elapsed time < B + H + D, sleeps taking exactly the time asked for.
C4_TimedBudget ==
    (Timed /\ LoopLeft) =>
        /\ Presses >= 1 /\ HoldSleeps >= 1 /\ Releases >= 1 /\ DelaySleeps >= 1
        /\ clock - start >= duration_ms
        /\ clock - start < duration_ms + hold_ms + click_speed_ms

C4_Witness ==
    /\ Timed /\ LoopLeft
    /\ duration_ms < hold_ms + click_speed_ms
    /\ Presses = 1

(***************************************************************************)
(* C5                                                                      *)
(***************************************************************************)
\* C5: when a call of the device setup fails, the process has exited with a
\* non-zero status and no key or sync event write was ever attempted.
C5_SetupFailureExits ==
    SetupFailed =>
        /\ Exited
        /\ exit_code # EXIT_SUCCESS
        /\ EventWrites = << >>

C5_Witness ==
    /\ SetupFailed /\ Exited
    /\ \E k \in DOMAIN trace : trace[k].kind = "UI_DEV_CREATE" /\ ~trace[k].ok

(***************************************************************************)
(* C6                                                                      *)
(***************************************************************************)
DurationOptions ==
    { OptHoldShort, OptHoldLong, OptSpeedShort, OptSpeedLong,
      OptTimeShort, OptTimeLong }

\* A word that is no positive number: zero, negative or not numeric.
InvalidDuration(s) == StoiThrows(s) \/ stoi(s) <= 0

\* Some duration option after the button selector is followed by an
\* invalid value.
InvalidDurationGiven(av) ==
    \E k \in 3..(Len(av) - 1) :
        av[k] \in DurationOptions /\ InvalidDuration(av[k + 1])

\* C6: a command line that gives an invalid value to a duration option ends
\* the process with a non-zero status before any call on the device.
C6_InvalidDurationRejected ==
    (pc # "main" /\ ~BadUsage(argv) /\ InvalidDurationGiven(argv)) =>
        /\ Exited
        /\ exit_code # EXIT_SUCCESS
        /\ trace = << >>

(***************************************************************************)
(* C7                                                                      *)
(***************************************************************************)
\* C7: the descriptor is never closed twice nor closed without having been
\* opened, and a process that has exited after opening it has closed it
\* exactly once.
C7_ClosedExactlyOnce ==
    /\ Closes <= 1
    /\ Closes = 1 => Opened
    /\ (Exited /\ Opened) => (Closes = 1 /\ handle = "closed")
    /\ handle = "open" <=> (Opened /\ Closes = 0)

C7_Witness ==
    /\ Exited /\ Opened /\ SetupFailed
    /\ Closes = 1

Phase ==
    CASE pc \in {"main", "setup", "run"} -> "NotStarted"
      [] pc \in {"count_check", "timed_check"} ->
            IF Releases = 0 THEN "Idle" ELSE "Released"
      [] pc = "press" -> "Idle"
      [] pc = "hold" -> "Pressed"
      [] pc = "release" -> "Held"
      [] pc \in {"count_delay", "timed_delay"} -> "Released"
      [] pc = "close" -> "Done"
      [] pc = "exited" -> IF exit_code = EXIT_SUCCESS THEN "Done" ELSE "Failed"

\* The count is used up, or the budget is spent.
Exhausted == IF Timed THEN clock - start >= duration_ms ELSE i = count

PhaseStep ==
    \/ Phase' = Phase
    \/ << Phase, Phase' >> \in
          { << "NotStarted", "Idle" >>, << "NotStarted", "Failed" >>,
            << "Idle", "Pressed" >>, << "Pressed", "Held" >>,
            << "Held", "Released" >>, << "Released", "Idle" >>,
            << "Released", "Done" >> }
    \/ /\ Phase = "Idle" /\ Phase' = "Done"
       /\ ~Timed /\ count = 0

\* At a cycle boundary Done is entered exactly when the count is used up or
\* the budget is spent.
DoneRule ==
    (pc \in {"count_check", "timed_check"} /\ pc' # pc) =>
        (Phase' = "Done" <=> Exhausted)

PositionalNumbers(av) ==
    { k \in 3..Len(av) :
        isdigit(FirstChar(av[k])) /\ av[k - 1] \notin DurationOptions }

Min(S) == CHOOSE x \in S : \A y \in S : x <= y

PositionalCount(av) ==
    IF PositionalNumbers(av) = {} THEN DEFAULT_CLICK_COUNT
    ELSE stoi(av[Min(PositionalNumbers(av))])

\* C10: the repetition count of a bounded-count run, and so the number of
\* presses it has made when its loop is left, is the positional repeat
\* count when there is one and DEFAULT_CLICK_COUNT otherwise; the value of
\* a named option is never the count.
C10_CountIsPositionalOrDefault ==
    (~Timed /\ LoopLeft) =>
        /\ count = PositionalCount(argv)
        /\ Presses = PositionalCount(argv)

====
